---- MODULE Spec2Model ----
(***************************************************************************)
(* Model of otii_tcp_client.arc.Arc and otii_tcp_client.toggle.Toggle.     *)
(*                                                                         *)
(* An Arc handle stores four fields and offers one method per remote       *)
(* command.  Every method builds a request dict, hands it to the           *)
(* connection's blocking send_and_receive, raises Otii_Exception on an     *)
(* error response and otherwise returns a field of the response's data (or *)
(* None).  One step of the model is one complete invocation of a public    *)
(* method, with the connection's answer chosen from Responses.             *)
(*                                                                         *)
(* Python values are records tagged with their class in field cls, so that *)
(* values of different Python types can be told apart and compared.        *)
(* A float f is held as the integer 1000 * f (field milli).                *)
(***************************************************************************)
EXTENDS Integers, Sequences, FiniteSets, TLC

VARIABLES
    init_args,  \* the arguments Arc.__init__ was given (never written afterwards)
    self,       \* the handle's fields: type, id, name, connection
    op,         \* name of the public method invoked last ("__init__" at first)
    args,       \* the arguments that invocation was given
    request,    \* the request that invocation handed to connection.send_and_receive
    timeout,    \* the timeout argument of that call
    response,   \* what that call returned
    calls,      \* number of send_and_receive calls that invocation made
    outcome,    \* how the last invocation ended: a returned value or a raised exception
    prev_failed \* whether the invocation before the last one raised the device
                \* error (history only: the handle keeps no such field)

vars == <<init_args, self, op, args, request, timeout, response, calls, outcome,
         prev_failed>>

---------------------------------------------------------------------------
(* Bounds of the input sets.                                               *)

MaxPin == 3
MaxSupply == 1
MaxBatteries == 2
MaxRate == 2
MaxTimeoutSteps == 3

---------------------------------------------------------------------------
(* Python values.                                                          *)

PyNone == [cls |-> "NoneType"]
PyBool(b) == [cls |-> "bool", v |-> b]
PyInt(i) == [cls |-> "int", v |-> i]
PyFloat(m) == [cls |-> "float", milli |-> m]
PyStr(s) == [cls |-> "str", v |-> s]
PyList(s) == [cls |-> "list", v |-> s]
Member(c, n) == [cls |-> c, name |-> n]

\* Toggle with the two values exchanged
Toggle_swapped ==
    [ON |-> FALSE, OFF |-> TRUE]

\* class Toggle(Enum): member name |-> member value
Toggle ==
    [ON |-> TRUE, OFF |-> FALSE]

\* class Channel(Enum): member name |-> member value
Channel ==
    [MAIN_CURRENT |-> "mc", MAIN_VOLTAGE |-> "mv", MAIN_ENERGY |-> "me",
     ADC_CURRENT |-> "ac", ADC_VOLTAGE |-> "av", ADC_ENERGY |-> "ae",
     SENSE_MINUS_VOLTAGE |-> "sn", SENSE_PLUS_VOLTAGE |-> "sp",
     VBUS |-> "vb", TEMPERATURE |-> "tp", UART_LOGS |-> "rx",
     GPI_1 |-> "i1", GPI_2 |-> "i2"]

Toggles == {Member("Toggle", n) : n \in DOMAIN Toggle}
Channels == {Member("Channel", n) : n \in DOMAIN Channel}

\* whether the expression x.value evaluates (Enum members have the attribute;
\* int, float, str, bool, list and None do not)
HasValue(x) == x.cls \in {"Toggle", "Channel"}

\* x.value for an Enum member x
Value(x) ==
    IF x.cls = "Toggle" THEN PyBool(Toggle[x.name]) ELSE PyStr(Channel[x.name])

\* a // 1000: the floor division that / was for ints before Python 3
DivThousand_floor(a) == PyFloat((a.v \div 1000) * 1000)

\* a / 1000 for an int a (true division), and 60 + f for a float f
DivThousand(a) == PyFloat(a.v)
SixtyPlus(f) == PyFloat(60 * 1000 + f.milli)

---------------------------------------------------------------------------
(* How an invocation ends.                                                 *)

Return(v) == [kind |-> "return", value |-> v]
Raise(e) == [kind |-> "raise", exc |-> e]
Otii_Exception(r) == [cls |-> "Otii_Exception", arg |-> r]
KeyError(k) == [cls |-> "KeyError", arg |-> k]
AttributeError(x, a) == [cls |-> "AttributeError", obj |-> x, attr |-> a]

\* d[k] on a dict d: the item, or KeyError(k)
GetItem(d, k) == IF k \in DOMAIN d THEN Return(d[k]) ELSE Raise(KeyError(k))

\* d.get(k, None) on a dict d
Get(d, k) == IF k \in DOMAIN d THEN Return(d[k]) ELSE Return(PyNone)

---------------------------------------------------------------------------
(* Arguments the methods are invoked with.                                 *)

NoArgs == [none |-> TRUE]

\* pins 1 and 2 are the documented ones; 0 and those above 2 are not
Pins == {PyInt(i) : i \in 0..MaxPin}

\* floats 0.0, 0.001, 1.2, 5.0, 22.0 and 23.0: the documented ranges are
\* 0.001-22 (Ohm), 1.2-5 (V) and 0.001-5 (A)
Floats == {PyFloat(m) : m \in {0, 1, 1200, 5000, 22000, 23000}}

Rates == {PyInt(1000 * i) : i \in 1..MaxRate}

\* set_channel_samplerate documents an int; an Enum member is what has .value
SamplerateArgs == Rates \cup {Member("Toggle", "ON")}

Profiles == {PyList(<<>>), PyList(<<[current |-> 1, duration |-> 10]>>)}
Strs == {PyStr(""), PyStr("AT\r\n")}
Modes == {PyStr("voltage"), PyStr("current"), PyStr("off")}
Ranges == {PyStr("low"), PyStr("high")}
SupplyIds == {PyInt(i) : i \in 0..MaxSupply}
Batteries == {PyInt(i) : i \in 1..MaxBatteries}
Timeouts == {PyInt(500 * i) : i \in 0..MaxTimeoutSteps}
Names == {PyStr("prop_a"), PyStr("prop_b")}
Filenames == {PyNone, PyStr("fw.bin")}

\* the device_dict and connection arguments of Arc.__init__
DeviceDicts ==
    {[type |-> PyStr("Arc"), device_id |-> PyStr("arc-1"), name |-> PyStr("Arc one")],
     [type |-> PyStr("Arc"), device_id |-> PyStr("arc-2"), name |-> PyStr("Arc two")]}
Connections == {"connection"}

---------------------------------------------------------------------------
(* The connection.  It is borrowed: its send_and_receive(request, timeout) *)
(* answers every request with one response, an envelope with a type and a  *)
(* data mapping.                                                           *)

DataA ==
    [value |-> PyInt(7), range |-> PyStr("low"), enabled |-> PyBool(TRUE),
     supplies |-> PyList(<<0, 1>>), supply_id |-> PyInt(1),
     connected |-> PyBool(TRUE), hw_version |-> PyStr("1.0.0"),
     fw_version |-> PyStr("1.2.3"), extra |-> PyStr("x")]
DataB ==
    [value |-> PyNone, range |-> PyStr("high"), enabled |-> PyBool(FALSE),
     supplies |-> PyList(<<>>), supply_id |-> PyInt(0),
     connected |-> PyBool(FALSE), hw_version |-> PyStr("2.0.0"),
     fw_version |-> PyStr("2.0.1")]
DataNoField == [info |-> PyStr("ok")]
DataMessage == [message |-> PyStr("failed")]

Responses ==
    {[type |-> "response", data |-> DataA],
     [type |-> "response", data |-> DataB],
     [type |-> "response", data |-> DataNoField],
     [type |-> "error", errorcode |-> PyStr("E1"), data |-> DataMessage],
     [type |-> "error", errorcode |-> PyStr("E2"), data |-> DataA]}

\* timeout argument left out of the call: the connection's default applies
Omitted == [cls |-> "omitted"]

\* no request, timeout or response: the invocation did not reach the connection
NoCall == [type |-> "nocall"]

\* response = self.connection.send_and_receive(request[, timeout])
send_and_receive(request_, timeout_, response_) ==
    /\ request' = request_
    /\ timeout' = timeout_
    /\ response' = response_
    /\ calls' = 1

\* an invocation that ends before it calls the connection
no_call ==
    /\ request' = NoCall
    /\ timeout' = NoCall
    /\ response' = NoCall
    /\ calls' = 0

\* whether outcome o is the device error, a raised Otii_Exception
DeviceError(o) == o.kind = "raise" /\ o.exc.cls = "Otii_Exception"

\* a caller invokes public method name with arguments a
Invoke(name, a) ==
    /\ op' = name
    /\ args' = a
    /\ prev_failed' = DeviceError(outcome)
    /\ UNCHANGED init_args

---------------------------------------------------------------------------
(* class Arc                                                               *)

\* Arc.__init__ taking the id from device_dict["name"]
Init_id_from_name ==
    \E device_dict \in DeviceDicts, connection \in Connections :
        /\ init_args = [device_dict |-> device_dict, connection |-> connection]
        /\ self = [type |-> device_dict.type, id |-> device_dict.name,
                   name |-> device_dict.name, connection |-> connection]
        /\ op = "__init__"
        /\ args = [device_dict |-> device_dict, connection |-> connection]
        /\ request = NoCall
        /\ timeout = NoCall
        /\ response = NoCall
        /\ calls = 0
        /\ outcome = Return(PyNone)
        /\ prev_failed = FALSE

\* Arc.__init__(device_dict, connection)
Init ==
    \E device_dict \in DeviceDicts, connection \in Connections :
        /\ init_args = [device_dict |-> device_dict, connection |-> connection]
        /\ self = [type |-> device_dict.type, id |-> device_dict.device_id,
                   name |-> device_dict.name, connection |-> connection]
        /\ op = "__init__"
        /\ args = [device_dict |-> device_dict, connection |-> connection]
        /\ request = NoCall
        /\ timeout = NoCall
        /\ response = NoCall
        /\ calls = 0
        /\ outcome = Return(PyNone)
        /\ prev_failed = FALSE

calibrate ==
    \E response_ \in Responses :
        LET data == [device_id |-> self.id]
            request_ == [type |-> "request", cmd |-> "arc_calibrate",
                         data |-> data]
        IN  /\ send_and_receive(request_, PyInt(10), response_)
            /\ outcome' = IF response_.type = "error"
                            THEN Raise(Otii_Exception(response_))
                            ELSE Return(PyNone)
            /\ UNCHANGED self

toggle_5v(toggle) ==
    \E response_ \in Responses :
        LET data == [device_id |-> self.id, enable |-> Value(toggle)]
            request_ == [type |-> "request", cmd |-> "arc_enable_5v",
                         data |-> data]
        IN  /\ send_and_receive(request_, Omitted, response_)
            /\ outcome' = IF response_.type = "error"
                            THEN Raise(Otii_Exception(response_))
                            ELSE Return(PyNone)
            /\ UNCHANGED self

enable_5v ==
    toggle_5v(Member("Toggle", "ON"))

disable_5v ==
    toggle_5v(Member("Toggle", "OFF"))

toggle_battery_profiling(toggle) ==
    \E response_ \in Responses :
        LET data == [device_id |-> self.id, enable |-> Value(toggle)]
            request_ == [type |-> "request", cmd |-> "arc_enable_battery_profiling",
                         data |-> data]
        IN  /\ send_and_receive(request_, Omitted, response_)
            /\ outcome' = IF response_.type = "error"
                            THEN Raise(Otii_Exception(response_))
                            ELSE Return(PyNone)
            /\ UNCHANGED self

enable_battery_profiling ==
    toggle_battery_profiling(Member("Toggle", "ON"))

disable_battery_profiling ==
    toggle_battery_profiling(Member("Toggle", "OFF"))

toggle_channel(channel, toggle) ==
    \E response_ \in Responses :
        LET data == [device_id |-> self.id,
                     channel |-> Value(channel),
                     enable |-> Value(toggle)]
            request_ == [type |-> "request", cmd |-> "arc_enable_channel",
                         data |-> data]
        IN  /\ send_and_receive(request_, Omitted, response_)
            /\ outcome' = IF response_.type = "error"
                            THEN Raise(Otii_Exception(response_))
                            ELSE Return(PyNone)
            /\ UNCHANGED self

enable_channel(channel) ==
    toggle_channel(channel, Member("Toggle", "ON"))

\* disable_channel doing what its docstring says ("Enable a measurement channel")
disable_channel_enables(channel) ==
    toggle_channel(channel, Member("Toggle", "ON"))

disable_channel(channel) ==
    toggle_channel(channel, Member("Toggle", "OFF"))

toggle_exp_port(toggle) ==
    \E response_ \in Responses :
        LET data == [device_id |-> self.id, enable |-> Value(toggle)]
            request_ == [type |-> "request", cmd |-> "arc_enable_exp_port",
                         data |-> data]
        IN  /\ send_and_receive(request_, Omitted, response_)
            /\ outcome' = IF response_.type = "error"
                            THEN Raise(Otii_Exception(response_))
                            ELSE Return(PyNone)
            /\ UNCHANGED self

enable_exp_port ==
    toggle_exp_port(Member("Toggle", "ON"))

disable_exp_port ==
    toggle_exp_port(Member("Toggle", "OFF"))

toggle_uart(toggle) ==
    \E response_ \in Responses :
        LET data == [device_id |-> self.id, enable |-> Value(toggle)]
            request_ == [type |-> "request", cmd |-> "arc_enable_uart",
                         data |-> data]
        IN  /\ send_and_receive(request_, Omitted, response_)
            /\ outcome' = IF response_.type = "error"
                            THEN Raise(Otii_Exception(response_))
                            ELSE Return(PyNone)
            /\ UNCHANGED self

enable_uart ==
    toggle_uart(Member("Toggle", "ON"))

disable_uart ==
    toggle_uart(Member("Toggle", "OFF"))

\* get_4wire without the check of response["type"]
get_4wire_unchecked ==
    \E response_ \in Responses :
        LET data == [device_id |-> self.id]
            request_ == [type |-> "request", cmd |-> "arc_get_4wire",
                         data |-> data]
        IN  /\ send_and_receive(request_, Omitted, response_)
            /\ outcome' = GetItem(response_.data, "value")
            /\ UNCHANGED self

get_4wire ==
    \E response_ \in Responses :
        LET data == [device_id |-> self.id]
            request_ == [type |-> "request", cmd |-> "arc_get_4wire",
                         data |-> data]
        IN  /\ send_and_receive(request_, Omitted, response_)
            /\ outcome' = IF response_.type = "error"
                            THEN Raise(Otii_Exception(response_))
                            ELSE GetItem(response_.data, "value")
            /\ UNCHANGED self

get_adc_resistor ==
    \E response_ \in Responses :
        LET data == [device_id |-> self.id]
            request_ == [type |-> "request", cmd |-> "arc_get_adc_resistor",
                         data |-> data]
        IN  /\ send_and_receive(request_, Omitted, response_)
            /\ outcome' = IF response_.type = "error"
                            THEN Raise(Otii_Exception(response_))
                            ELSE GetItem(response_.data, "value")
            /\ UNCHANGED self

get_channel_samplerate(channel) ==
    \E response_ \in Responses :
        LET data == [device_id |-> self.id, channel |-> Value(channel)]
            request_ == [type |-> "request", cmd |-> "arc_get_channel_samplerate",
                         data |-> data]
        IN  /\ send_and_receive(request_, Omitted, response_)
            /\ outcome' = IF response_.type = "error"
                            THEN Raise(Otii_Exception(response_))
                            ELSE GetItem(response_.data, "value")
            /\ UNCHANGED self

get_exp_voltage ==
    \E response_ \in Responses :
        LET data == [device_id |-> self.id]
            request_ == [type |-> "request", cmd |-> "arc_get_exp_voltage",
                         data |-> data]
        IN  /\ send_and_receive(request_, Omitted, response_)
            /\ outcome' = IF response_.type = "error"
                            THEN Raise(Otii_Exception(response_))
                            ELSE GetItem(response_.data, "value")
            /\ UNCHANGED self

get_gpi(pin) ==
    \E response_ \in Responses :
        LET data == [device_id |-> self.id, pin |-> pin]
            request_ == [type |-> "request", cmd |-> "arc_get_gpi",
                         data |-> data]
        IN  /\ send_and_receive(request_, Omitted, response_)
            /\ outcome' = IF response_.type = "error"
                            THEN Raise(Otii_Exception(response_))
                            ELSE GetItem(response_.data, "value")
            /\ UNCHANGED self

get_main ==
    \E response_ \in Responses :
        LET data == [device_id |-> self.id]
            request_ == [type |-> "request", cmd |-> "arc_get_main",
                         data |-> data]
        IN  /\ send_and_receive(request_, Omitted, response_)
            /\ outcome' = IF response_.type = "error"
                            THEN Raise(Otii_Exception(response_))
                            ELSE GetItem(response_.data, "value")
            /\ UNCHANGED self

get_main_voltage ==
    \E response_ \in Responses :
        LET data == [device_id |-> self.id]
            request_ == [type |-> "request", cmd |-> "arc_get_main_voltage",
                         data |-> data]
        IN  /\ send_and_receive(request_, Omitted, response_)
            /\ outcome' = IF response_.type = "error"
                            THEN Raise(Otii_Exception(response_))
                            ELSE GetItem(response_.data, "value")
            /\ UNCHANGED self

get_max_current ==
    \E response_ \in Responses :
        LET data == [device_id |-> self.id]
            request_ == [type |-> "request", cmd |-> "arc_get_max_current",
                         data |-> data]
        IN  /\ send_and_receive(request_, Omitted, response_)
            /\ outcome' = IF response_.type = "error"
                            THEN Raise(Otii_Exception(response_))
                            ELSE GetItem(response_.data, "value")
            /\ UNCHANGED self

\* get_range returning data["value"] like most getters
get_range_value ==
    \E response_ \in Responses :
        LET data == [device_id |-> self.id]
            request_ == [type |-> "request", cmd |-> "arc_get_range",
                         data |-> data]
        IN  /\ send_and_receive(request_, Omitted, response_)
            /\ outcome' = IF response_.type = "error"
                            THEN Raise(Otii_Exception(response_))
                            ELSE GetItem(response_.data, "value")
            /\ UNCHANGED self

get_range ==
    \E response_ \in Responses :
        LET data == [device_id |-> self.id]
            request_ == [type |-> "request", cmd |-> "arc_get_range",
                         data |-> data]
        IN  /\ send_and_receive(request_, Omitted, response_)
            /\ outcome' = IF response_.type = "error"
                            THEN Raise(Otii_Exception(response_))
                            ELSE GetItem(response_.data, "range")
            /\ UNCHANGED self

get_rx ==
    \E response_ \in Responses :
        LET data == [device_id |-> self.id]
            request_ == [type |-> "request", cmd |-> "arc_get_rx",
                         data |-> data]
        IN  /\ send_and_receive(request_, Omitted, response_)
            /\ outcome' = IF response_.type = "error"
                            THEN Raise(Otii_Exception(response_))
                            ELSE GetItem(response_.data, "value")
            /\ UNCHANGED self

get_src_cur_limit_enabled ==
    \E response_ \in Responses :
        LET data == [device_id |-> self.id]
            request_ == [type |-> "request", cmd |-> "arc_get_src_cur_limit_enabled",
                         data |-> data]
        IN  /\ send_and_receive(request_, Omitted, response_)
            /\ outcome' = IF response_.type = "error"
                            THEN Raise(Otii_Exception(response_))
                            ELSE GetItem(response_.data, "enabled")
            /\ UNCHANGED self

get_supplies ==
    \E response_ \in Responses :
        LET data == [device_id |-> self.id]
            request_ == [type |-> "request", cmd |-> "arc_get_supplies",
                         data |-> data]
        IN  /\ send_and_receive(request_, Omitted, response_)
            /\ outcome' = IF response_.type = "error"
                            THEN Raise(Otii_Exception(response_))
                            ELSE GetItem(response_.data, "supplies")
            /\ UNCHANGED self

get_supply ==
    \E response_ \in Responses :
        LET data == [device_id |-> self.id]
            request_ == [type |-> "request", cmd |-> "arc_get_supply",
                         data |-> data]
        IN  /\ send_and_receive(request_, Omitted, response_)
            /\ outcome' = IF response_.type = "error"
                            THEN Raise(Otii_Exception(response_))
                            ELSE GetItem(response_.data, "supply_id")
            /\ UNCHANGED self

get_supply_parallel ==
    \E response_ \in Responses :
        LET data == [device_id |-> self.id]
            request_ == [type |-> "request", cmd |-> "arc_get_supply_parallel",
                         data |-> data]
        IN  /\ send_and_receive(request_, Omitted, response_)
            /\ outcome' = IF response_.type = "error"
                            THEN Raise(Otii_Exception(response_))
                            ELSE GetItem(response_.data, "value")
            /\ UNCHANGED self

get_supply_series ==
    \E response_ \in Responses :
        LET data == [device_id |-> self.id]
            request_ == [type |-> "request", cmd |-> "arc_get_supply_series",
                         data |-> data]
        IN  /\ send_and_receive(request_, Omitted, response_)
            /\ outcome' = IF response_.type = "error"
                            THEN Raise(Otii_Exception(response_))
                            ELSE GetItem(response_.data, "value")
            /\ UNCHANGED self

get_supply_soc_tracking ==
    \E response_ \in Responses :
        LET data == [device_id |-> self.id]
            request_ == [type |-> "request", cmd |-> "arc_get_supply_soc_tracking",
                         data |-> data]
        IN  /\ send_and_receive(request_, Omitted, response_)
            /\ outcome' = IF response_.type = "error"
                            THEN Raise(Otii_Exception(response_))
                            ELSE GetItem(response_.data, "enabled")
            /\ UNCHANGED self

get_supply_used_capacity ==
    \E response_ \in Responses :
        LET data == [device_id |-> self.id]
            request_ == [type |-> "request", cmd |-> "arc_get_supply_used_capacity",
                         data |-> data]
        IN  /\ send_and_receive(request_, Omitted, response_)
            /\ outcome' = IF response_.type = "error"
                            THEN Raise(Otii_Exception(response_))
                            ELSE GetItem(response_.data, "value")
            /\ UNCHANGED self

get_uart_baudrate ==
    \E response_ \in Responses :
        LET data == [device_id |-> self.id]
            request_ == [type |-> "request", cmd |-> "arc_get_uart_baudrate",
                         data |-> data]
        IN  /\ send_and_receive(request_, Omitted, response_)
            /\ outcome' = IF response_.type = "error"
                            THEN Raise(Otii_Exception(response_))
                            ELSE GetItem(response_.data, "value")
            /\ UNCHANGED self

\* get_value sending the Channel member instead of its value
get_value_member(channel) ==
    \E response_ \in Responses :
        LET data == [device_id |-> self.id, channel |-> channel]
            request_ == [type |-> "request", cmd |-> "arc_get_value",
                         data |-> data]
        IN  /\ send_and_receive(request_, Omitted, response_)
            /\ outcome' = IF response_.type = "error"
                            THEN Raise(Otii_Exception(response_))
                            ELSE GetItem(response_.data, "value")
            /\ UNCHANGED self

get_value(channel) ==
    \E response_ \in Responses :
        LET data == [device_id |-> self.id, channel |-> Value(channel)]
            request_ == [type |-> "request", cmd |-> "arc_get_value",
                         data |-> data]
        IN  /\ send_and_receive(request_, Omitted, response_)
            /\ outcome' = IF response_.type = "error"
                            THEN Raise(Otii_Exception(response_))
                            ELSE GetItem(response_.data, "value")
            /\ UNCHANGED self

\* get_version building a dict of the two documented keys
get_version_two_keys ==
    \E response_ \in Responses :
        LET data == [device_id |-> self.id]
            request_ == [type |-> "request", cmd |-> "arc_get_version",
                         data |-> data]
            version == [k \in {"hw_version", "fw_version"} \cap DOMAIN response_.data
                          |-> response_.data[k]]
        IN  /\ send_and_receive(request_, Omitted, response_)
            /\ outcome' = IF response_.type = "error"
                            THEN Raise(Otii_Exception(response_))
                            ELSE Return(version)
            /\ UNCHANGED self

get_version ==
    \E response_ \in Responses :
        LET data == [device_id |-> self.id]
            request_ == [type |-> "request", cmd |-> "arc_get_version",
                         data |-> data]
        IN  /\ send_and_receive(request_, Omitted, response_)
            /\ outcome' = IF response_.type = "error"
                            THEN Raise(Otii_Exception(response_))
                            ELSE Return(response_.data)
            /\ UNCHANGED self

is_connected ==
    \E response_ \in Responses :
        LET data == [device_id |-> self.id]
            request_ == [type |-> "request", cmd |-> "arc_is_connected",
                         data |-> data]
        IN  /\ send_and_receive(request_, Omitted, response_)
            /\ outcome' = IF response_.type = "error"
                            THEN Raise(Otii_Exception(response_))
                            ELSE GetItem(response_.data, "connected")
            /\ UNCHANGED self

toggle_4wire(toggle) ==
    \E response_ \in Responses :
        LET data == [device_id |-> self.id, enable |-> Value(toggle)]
            request_ == [type |-> "request", cmd |-> "arc_set_4wire",
                         data |-> data]
        IN  /\ send_and_receive(request_, Omitted, response_)
            /\ outcome' = IF response_.type = "error"
                            THEN Raise(Otii_Exception(response_))
                            ELSE Return(PyNone)
            /\ UNCHANGED self

enable_4wire ==
    toggle_4wire(Member("Toggle", "ON"))

disable_4wire ==
    toggle_4wire(Member("Toggle", "OFF"))

ValueError(x) == [cls |-> "ValueError", arg |-> x]

\* set_adc_resistor enforcing the documented 0.001-22 Ohm before sending
set_adc_resistor_validated(value) ==
    IF value.milli < 1 \/ value.milli > 22000
    THEN /\ outcome' = Raise(ValueError(value))
         /\ no_call
         /\ UNCHANGED self
    ELSE
    \E response_ \in Responses :
        LET data == [device_id |-> self.id, value |-> value]
            request_ == [type |-> "request", cmd |-> "arc_set_adc_resistor",
                         data |-> data]
        IN  /\ send_and_receive(request_, Omitted, response_)
            /\ outcome' = IF response_.type = "error"
                            THEN Raise(Otii_Exception(response_))
                            ELSE Return(PyNone)
            /\ UNCHANGED self

set_adc_resistor(value) ==
    \E response_ \in Responses :
        LET data == [device_id |-> self.id, value |-> value]
            request_ == [type |-> "request", cmd |-> "arc_set_adc_resistor",
                         data |-> data]
        IN  /\ send_and_receive(request_, Omitted, response_)
            /\ outcome' = IF response_.type = "error"
                            THEN Raise(Otii_Exception(response_))
                            ELSE Return(PyNone)
            /\ UNCHANGED self

set_battery_profile(value) ==
    \E response_ \in Responses :
        LET data == [device_id |-> self.id, value |-> value]
            request_ == [type |-> "request", cmd |-> "arc_set_battery_profile",
                         data |-> data]
        IN  /\ send_and_receive(request_, Omitted, response_)
            /\ outcome' = IF response_.type = "error"
                            THEN Raise(Otii_Exception(response_))
                            ELSE Return(PyNone)
            /\ UNCHANGED self

set_channel_samplerate(channel, value) ==
    IF ~HasValue(value)
    THEN /\ outcome' = Raise(AttributeError(value, "value"))
         /\ no_call
         /\ UNCHANGED self
    ELSE
    \E response_ \in Responses :
        LET data == [device_id |-> self.id,
                     channel |-> channel,
                     value |-> Value(value)]
            request_ == [type |-> "request", cmd |-> "arc_set_channel_samplerate",
                         data |-> data]
        IN  /\ send_and_receive(request_, Omitted, response_)
            /\ outcome' = IF response_.type = "error"
                            THEN Raise(Otii_Exception(response_))
                            ELSE Return(PyNone)
            /\ UNCHANGED self

set_exp_voltage(value) ==
    \E response_ \in Responses :
        LET data == [device_id |-> self.id, value |-> value]
            request_ == [type |-> "request", cmd |-> "arc_set_exp_voltage",
                         data |-> data]
        IN  /\ send_and_receive(request_, Omitted, response_)
            /\ outcome' = IF response_.type = "error"
                            THEN Raise(Otii_Exception(response_))
                            ELSE Return(PyNone)
            /\ UNCHANGED self

toggle_gpo(pin, toggle) ==
    \E response_ \in Responses :
        LET data == [device_id |-> self.id, pin |-> pin, value |-> Value(toggle)]
            request_ == [type |-> "request", cmd |-> "arc_set_gpo",
                         data |-> data]
        IN  /\ send_and_receive(request_, Omitted, response_)
            /\ outcome' = IF response_.type = "error"
                            THEN Raise(Otii_Exception(response_))
                            ELSE Return(PyNone)
            /\ UNCHANGED self

enable_gpo(pin) ==
    toggle_gpo(pin, Member("Toggle", "ON"))

disable_gpo(pin) ==
    toggle_gpo(pin, Member("Toggle", "OFF"))

toggle_main(toggle) ==
    \E response_ \in Responses :
        LET data == [device_id |-> self.id, enable |-> Value(toggle)]
            request_ == [type |-> "request", cmd |-> "arc_set_main",
                         data |-> data]
        IN  /\ send_and_receive(request_, Omitted, response_)
            /\ outcome' = IF response_.type = "error"
                            THEN Raise(Otii_Exception(response_))
                            ELSE Return(PyNone)
            /\ UNCHANGED self

enable_main ==
    toggle_main(Member("Toggle", "ON"))

disable_main ==
    toggle_main(Member("Toggle", "OFF"))

set_main_current(value) ==
    \E response_ \in Responses :
        LET data == [device_id |-> self.id, value |-> value]
            request_ == [type |-> "request", cmd |-> "arc_set_main_current",
                         data |-> data]
        IN  /\ send_and_receive(request_, Omitted, response_)
            /\ outcome' = IF response_.type = "error"
                            THEN Raise(Otii_Exception(response_))
                            ELSE Return(PyNone)
            /\ UNCHANGED self

set_main_voltage(value) ==
    \E response_ \in Responses :
        LET data == [device_id |-> self.id, value |-> value]
            request_ == [type |-> "request", cmd |-> "arc_set_main_voltage",
                         data |-> data]
        IN  /\ send_and_receive(request_, Omitted, response_)
            /\ outcome' = IF response_.type = "error"
                            THEN Raise(Otii_Exception(response_))
                            ELSE Return(PyNone)
            /\ UNCHANGED self

set_max_current(value) ==
    \E response_ \in Responses :
        LET data == [device_id |-> self.id, value |-> value]
            request_ == [type |-> "request", cmd |-> "arc_set_max_current",
                         data |-> data]
        IN  /\ send_and_receive(request_, Omitted, response_)
            /\ outcome' = IF response_.type = "error"
                            THEN Raise(Otii_Exception(response_))
                            ELSE Return(PyNone)
            /\ UNCHANGED self

set_power_regulation(mode) ==
    \E response_ \in Responses :
        LET data == [device_id |-> self.id, mode |-> mode]
            request_ == [type |-> "request", cmd |-> "arc_set_power_regulation",
                         data |-> data]
        IN  /\ send_and_receive(request_, Omitted, response_)
            /\ outcome' = IF response_.type = "error"
                            THEN Raise(Otii_Exception(response_))
                            ELSE Return(PyNone)
            /\ UNCHANGED self

set_range(range_) ==
    \E response_ \in Responses :
        LET data == [device_id |-> self.id, range |-> range_]
            request_ == [type |-> "request", cmd |-> "arc_set_range",
                         data |-> data]
        IN  /\ send_and_receive(request_, Omitted, response_)
            /\ outcome' = IF response_.type = "error"
                            THEN Raise(Otii_Exception(response_))
                            ELSE Return(PyNone)
            /\ UNCHANGED self

toggle_src_cur_limit(toggle) ==
    \E response_ \in Responses :
        LET data == [device_id |-> self.id, enable |-> Value(toggle)]
            request_ == [type |-> "request", cmd |-> "arc_set_src_cur_limit_enabled",
                         data |-> data]
        IN  /\ send_and_receive(request_, Omitted, response_)
            /\ outcome' = IF response_.type = "error"
                            THEN Raise(Otii_Exception(response_))
                            ELSE Return(PyNone)
            /\ UNCHANGED self

enable_toggle_src_cur_limit ==
    toggle_src_cur_limit(Member("Toggle", "ON"))

disable_toggle_src_cur_limit ==
    toggle_src_cur_limit(Member("Toggle", "OFF"))

set_supply(supply_id, series, parallel) ==
    \E response_ \in Responses :
        LET data == [device_id |-> self.id,
                     supply_id |-> supply_id,
                     series |-> series,
                     parallel |-> parallel]
            request_ == [type |-> "request", cmd |-> "arc_set_supply",
                         data |-> data]
        IN  /\ send_and_receive(request_, Omitted, response_)
            /\ outcome' = IF response_.type = "error"
                            THEN Raise(Otii_Exception(response_))
                            ELSE Return(PyNone)
            /\ UNCHANGED self

toggle_supply_soc_tracking(toggle) ==
    \E response_ \in Responses :
        LET data == [device_id |-> self.id, enable |-> Value(toggle)]
            request_ == [type |-> "request", cmd |-> "arc_set_supply_soc_tracking",
                         data |-> data]
        IN  /\ send_and_receive(request_, Omitted, response_)
            /\ outcome' = IF response_.type = "error"
                            THEN Raise(Otii_Exception(response_))
                            ELSE Return(PyNone)
            /\ UNCHANGED self

enable_supply_soc_tracking ==
    toggle_supply_soc_tracking(Member("Toggle", "ON"))

disable_supply_soc_tracking ==
    toggle_supply_soc_tracking(Member("Toggle", "OFF"))

set_supply_used_capacity(value) ==
    \E response_ \in Responses :
        LET data == [device_id |-> self.id, value |-> value]
            request_ == [type |-> "request", cmd |-> "arc_set_supply_used_capacity",
                         data |-> data]
        IN  /\ send_and_receive(request_, Omitted, response_)
            /\ outcome' = IF response_.type = "error"
                            THEN Raise(Otii_Exception(response_))
                            ELSE Return(PyNone)
            /\ UNCHANGED self

toggle_tx(toggle) ==
    \E response_ \in Responses :
        LET data == [device_id |-> self.id, value |-> Value(toggle)]
            request_ == [type |-> "request", cmd |-> "arc_set_tx",
                         data |-> data]
        IN  /\ send_and_receive(request_, Omitted, response_)
            /\ outcome' = IF response_.type = "error"
                            THEN Raise(Otii_Exception(response_))
                            ELSE Return(PyNone)
            /\ UNCHANGED self

enable_tx ==
    toggle_tx(Member("Toggle", "ON"))

disable_tx ==
    toggle_tx(Member("Toggle", "OFF"))

set_uart_baudrate(value) ==
    \E response_ \in Responses :
        LET data == [device_id |-> self.id, value |-> value]
            request_ == [type |-> "request", cmd |-> "arc_set_uart_baudrate",
                         data |-> data]
        IN  /\ send_and_receive(request_, Omitted, response_)
            /\ outcome' = IF response_.type = "error"
                            THEN Raise(Otii_Exception(response_))
                            ELSE Return(PyNone)
            /\ UNCHANGED self

wait_for_battery_data(timeout_) ==
    \E response_ \in Responses :
        LET data == [device_id |-> self.id, timeout |-> timeout_]
            request_ == [type |-> "request", cmd |-> "arc_wait_for_battery_data",
                         data |-> data]
        IN  /\ send_and_receive(request_, SixtyPlus(DivThousand(timeout_)), response_)
            /\ outcome' = IF response_.type = "error"
                            THEN Raise(Otii_Exception(response_))
                            ELSE GetItem(response_.data, "value")
            /\ UNCHANGED self

write_tx(value) ==
    \E response_ \in Responses :
        LET data == [device_id |-> self.id, value |-> value]
            request_ == [type |-> "request", cmd |-> "arc_write_tx",
                         data |-> data]
        IN  /\ send_and_receive(request_, Omitted, response_)
            /\ outcome' = IF response_.type = "error"
                            THEN Raise(Otii_Exception(response_))
                            ELSE Return(PyNone)
            /\ UNCHANGED self

\* get_property indexing data["value"] like the other getters
get_property_indexing(name) ==
    \E response_ \in Responses :
        LET data == [device_id |-> self.id, name |-> name]
            request_ == [type |-> "request", cmd |-> "arc_get_property",
                         data |-> data]
        IN  /\ send_and_receive(request_, Omitted, response_)
            /\ outcome' = IF response_.type = "error"
                            THEN Raise(Otii_Exception(response_))
                            ELSE GetItem(response_.data, "value")
            /\ UNCHANGED self

get_property(name) ==
    \E response_ \in Responses :
        LET data == [device_id |-> self.id, name |-> name]
            request_ == [type |-> "request", cmd |-> "arc_get_property",
                         data |-> data]
        IN  /\ send_and_receive(request_, Omitted, response_)
            /\ outcome' = IF response_.type = "error"
                            THEN Raise(Otii_Exception(response_))
                            ELSE Get(response_.data, "value")
            /\ UNCHANGED self

\* set_property also storing the property name in the handle's name field
set_property_renaming(name, value) ==
    \E response_ \in Responses :
        LET data == [device_id |-> self.id, name |-> name, value |-> value]
            request_ == [type |-> "request", cmd |-> "arc_set_property",
                         data |-> data]
        IN  /\ send_and_receive(request_, Omitted, response_)
            /\ outcome' = IF response_.type = "error"
                            THEN Raise(Otii_Exception(response_))
                            ELSE Return(PyNone)
            /\ self' = [self EXCEPT !.name = name]

set_property(name, value) ==
    \E response_ \in Responses :
        LET data == [device_id |-> self.id, name |-> name, value |-> value]
            request_ == [type |-> "request", cmd |-> "arc_set_property",
                         data |-> data]
        IN  /\ send_and_receive(request_, Omitted, response_)
            /\ outcome' = IF response_.type = "error"
                            THEN Raise(Otii_Exception(response_))
                            ELSE Return(PyNone)
            /\ UNCHANGED self

\* commit remembering a failure: after an invocation that raised, it raises
\* that exception again instead of sending
commit_sticky ==
    IF outcome.kind = "raise"
    THEN /\ outcome' = outcome
         /\ no_call
         /\ UNCHANGED self
    ELSE
    \E response_ \in Responses :
        LET data == [device_id |-> self.id]
            request_ == [type |-> "request", cmd |-> "arc_commit",
                         data |-> data]
        IN  /\ send_and_receive(request_, Omitted, response_)
            /\ outcome' = IF response_.type = "error"
                            THEN Raise(Otii_Exception(response_))
                            ELSE Return(PyNone)
            /\ UNCHANGED self

commit ==
    \E response_ \in Responses :
        LET data == [device_id |-> self.id]
            request_ == [type |-> "request", cmd |-> "arc_commit",
                         data |-> data]
        IN  /\ send_and_receive(request_, Omitted, response_)
            /\ outcome' = IF response_.type = "error"
                            THEN Raise(Otii_Exception(response_))
                            ELSE Return(PyNone)
            /\ UNCHANGED self

firmware_upgrade(filename) ==
    \E response_ \in Responses :
        LET data == [device_id |-> self.id, filename |-> filename]
            request_ == [type |-> "request", cmd |-> "arc_firmware_upgrade",
                         data |-> data]
        IN  /\ send_and_receive(request_, PyInt(15), response_)
            /\ outcome' = IF response_.type = "error"
                            THEN Raise(Otii_Exception(response_))
                            ELSE Return(PyNone)
            /\ UNCHANGED self

---------------------------------------------------------------------------
Next ==
    \/ Invoke("calibrate", NoArgs) /\ calibrate
    \/ \E toggle \in Toggles :
           Invoke("toggle_5v", [toggle |-> toggle]) /\ toggle_5v(toggle)
    \/ Invoke("enable_5v", NoArgs) /\ enable_5v
    \/ Invoke("disable_5v", NoArgs) /\ disable_5v
    \/ \E toggle \in Toggles :
           Invoke("toggle_battery_profiling", [toggle |-> toggle]) /\ toggle_battery_profiling(toggle)
    \/ Invoke("enable_battery_profiling", NoArgs) /\ enable_battery_profiling
    \/ Invoke("disable_battery_profiling", NoArgs) /\ disable_battery_profiling
    \/ \E channel \in Channels, toggle \in Toggles :
           Invoke("toggle_channel", [channel |-> channel, toggle |-> toggle]) /\ toggle_channel(channel, toggle)
    \/ \E channel \in Channels :
           Invoke("enable_channel", [channel |-> channel]) /\ enable_channel(channel)
    \/ \E channel \in Channels :
           Invoke("disable_channel", [channel |-> channel]) /\ disable_channel(channel)
    \/ \E toggle \in Toggles :
           Invoke("toggle_exp_port", [toggle |-> toggle]) /\ toggle_exp_port(toggle)
    \/ Invoke("enable_exp_port", NoArgs) /\ enable_exp_port
    \/ Invoke("disable_exp_port", NoArgs) /\ disable_exp_port
    \/ \E toggle \in Toggles :
           Invoke("toggle_uart", [toggle |-> toggle]) /\ toggle_uart(toggle)
    \/ Invoke("enable_uart", NoArgs) /\ enable_uart
    \/ Invoke("disable_uart", NoArgs) /\ disable_uart
    \/ Invoke("get_4wire", NoArgs) /\ get_4wire
    \/ Invoke("get_adc_resistor", NoArgs) /\ get_adc_resistor
    \/ \E channel \in Channels :
           Invoke("get_channel_samplerate", [channel |-> channel]) /\ get_channel_samplerate(channel)
    \/ Invoke("get_exp_voltage", NoArgs) /\ get_exp_voltage
    \/ \E pin \in Pins :
           Invoke("get_gpi", [pin |-> pin]) /\ get_gpi(pin)
    \/ Invoke("get_main", NoArgs) /\ get_main
    \/ Invoke("get_main_voltage", NoArgs) /\ get_main_voltage
    \/ Invoke("get_max_current", NoArgs) /\ get_max_current
    \/ Invoke("get_range", NoArgs) /\ get_range
    \/ Invoke("get_rx", NoArgs) /\ get_rx
    \/ Invoke("get_src_cur_limit_enabled", NoArgs) /\ get_src_cur_limit_enabled
    \/ Invoke("get_supplies", NoArgs) /\ get_supplies
    \/ Invoke("get_supply", NoArgs) /\ get_supply
    \/ Invoke("get_supply_parallel", NoArgs) /\ get_supply_parallel
    \/ Invoke("get_supply_series", NoArgs) /\ get_supply_series
    \/ Invoke("get_supply_soc_tracking", NoArgs) /\ get_supply_soc_tracking
    \/ Invoke("get_supply_used_capacity", NoArgs) /\ get_supply_used_capacity
    \/ Invoke("get_uart_baudrate", NoArgs) /\ get_uart_baudrate
    \/ \E channel \in Channels :
           Invoke("get_value", [channel |-> channel]) /\ get_value(channel)
    \/ Invoke("get_version", NoArgs) /\ get_version
    \/ Invoke("is_connected", NoArgs) /\ is_connected
    \/ \E toggle \in Toggles :
           Invoke("toggle_4wire", [toggle |-> toggle]) /\ toggle_4wire(toggle)
    \/ Invoke("enable_4wire", NoArgs) /\ enable_4wire
    \/ Invoke("disable_4wire", NoArgs) /\ disable_4wire
    \/ \E value \in Floats :
           Invoke("set_adc_resistor", [value |-> value]) /\ set_adc_resistor(value)
    \/ \E value \in Profiles :
           Invoke("set_battery_profile", [value |-> value]) /\ set_battery_profile(value)
    \/ \E channel \in Channels, value \in SamplerateArgs :
           Invoke("set_channel_samplerate", [channel |-> channel, value |-> value]) /\ set_channel_samplerate(channel, value)
    \/ \E value \in Floats :
           Invoke("set_exp_voltage", [value |-> value]) /\ set_exp_voltage(value)
    \/ \E pin \in Pins, toggle \in Toggles :
           Invoke("toggle_gpo", [pin |-> pin, toggle |-> toggle]) /\ toggle_gpo(pin, toggle)
    \/ \E pin \in Pins :
           Invoke("enable_gpo", [pin |-> pin]) /\ enable_gpo(pin)
    \/ \E pin \in Pins :
           Invoke("disable_gpo", [pin |-> pin]) /\ disable_gpo(pin)
    \/ \E toggle \in Toggles :
           Invoke("toggle_main", [toggle |-> toggle]) /\ toggle_main(toggle)
    \/ Invoke("enable_main", NoArgs) /\ enable_main
    \/ Invoke("disable_main", NoArgs) /\ disable_main
    \/ \E value \in Floats :
           Invoke("set_main_current", [value |-> value]) /\ set_main_current(value)
    \/ \E value \in Floats :
           Invoke("set_main_voltage", [value |-> value]) /\ set_main_voltage(value)
    \/ \E value \in Floats :
           Invoke("set_max_current", [value |-> value]) /\ set_max_current(value)
    \/ \E mode \in Modes :
           Invoke("set_power_regulation", [mode |-> mode]) /\ set_power_regulation(mode)
    \/ \E range_ \in Ranges :
           Invoke("set_range", [range |-> range_]) /\ set_range(range_)
    \/ \E toggle \in Toggles :
           Invoke("toggle_src_cur_limit", [toggle |-> toggle]) /\ toggle_src_cur_limit(toggle)
    \/ Invoke("enable_toggle_src_cur_limit", NoArgs) /\ enable_toggle_src_cur_limit
    \/ Invoke("disable_toggle_src_cur_limit", NoArgs) /\ disable_toggle_src_cur_limit
    \/ \E supply_id \in SupplyIds, series \in Batteries, parallel \in Batteries :
           Invoke("set_supply", [supply_id |-> supply_id, series |-> series, parallel |-> parallel]) /\ set_supply(supply_id, series, parallel)
    \/ \E toggle \in Toggles :
           Invoke("toggle_supply_soc_tracking", [toggle |-> toggle]) /\ toggle_supply_soc_tracking(toggle)
    \/ Invoke("enable_supply_soc_tracking", NoArgs) /\ enable_supply_soc_tracking
    \/ Invoke("disable_supply_soc_tracking", NoArgs) /\ disable_supply_soc_tracking
    \/ \E value \in Floats :
           Invoke("set_supply_used_capacity", [value |-> value]) /\ set_supply_used_capacity(value)
    \/ \E toggle \in Toggles :
           Invoke("toggle_tx", [toggle |-> toggle]) /\ toggle_tx(toggle)
    \/ Invoke("enable_tx", NoArgs) /\ enable_tx
    \/ Invoke("disable_tx", NoArgs) /\ disable_tx
    \/ \E value \in Rates :
           Invoke("set_uart_baudrate", [value |-> value]) /\ set_uart_baudrate(value)
    \/ \E timeout_ \in Timeouts :
           Invoke("wait_for_battery_data", [timeout |-> timeout_]) /\ wait_for_battery_data(timeout_)
    \/ \E value \in Strs :
           Invoke("write_tx", [value |-> value]) /\ write_tx(value)
    \/ \E name \in Names :
           Invoke("get_property", [name |-> name]) /\ get_property(name)
    \/ \E name \in Names, value \in Rates :
           Invoke("set_property", [name |-> name, value |-> value]) /\ set_property(name, value)
    \/ Invoke("commit", NoArgs) /\ commit
    \/ \E filename \in Filenames :
           Invoke("firmware_upgrade", [filename |-> filename]) /\ firmware_upgrade(filename)

Spec == Init /\ [][Next]_vars

---------------------------------------------------------------------------
(* Claims.                                                                 *)

ErrorA == [type |-> "error", errorcode |-> PyStr("E2"), data |-> DataA]

\* C1: whenever send_and_receive has answered an invocation of any public
\* method with a response whose type is "error", the invocation ended by
\* raising Otii_Exception built from exactly that response, and so returned
\* no value.
C1_ErrorResponseRaises ==
    (calls > 0 /\ response.type = "error")
        => outcome = Raise(Otii_Exception(response))

\* C1 witness: get_4wire was answered with an error response whose data even
\* holds a value, and raised Otii_Exception carrying that response.
C1_Witness ==
    /\ op = "get_4wire"
    /\ response = ErrorA
    /\ outcome.kind = "raise"
    /\ outcome.exc.cls = "Otii_Exception"
    /\ outcome.exc.arg = ErrorA

\* the getters that return data["value"]
C2_ValueGetters ==
    {"get_4wire", "get_adc_resistor", "get_channel_samplerate", "get_exp_voltage",
     "get_gpi", "get_main", "get_main_voltage", "get_max_current", "get_rx",
     "get_supply_parallel", "get_supply_series", "get_supply_used_capacity",
     "get_uart_baudrate", "get_value", "wait_for_battery_data"}

\* the other getters, each with the field of data it returns
C2_FieldGetters ==
    [get_range |-> "range", get_src_cur_limit_enabled |-> "enabled",
     get_supply_soc_tracking |-> "enabled", get_supplies |-> "supplies",
     get_supply |-> "supply_id", is_connected |-> "connected"]

\* the pure commands: calibrate, toggle_*, set_*, write_tx, commit,
\* firmware_upgrade
C2_PureCommands ==
    {"calibrate", "toggle_5v", "toggle_battery_profiling", "toggle_channel",
     "toggle_exp_port", "toggle_uart", "toggle_4wire", "toggle_gpo",
     "toggle_main", "toggle_src_cur_limit", "toggle_supply_soc_tracking",
     "toggle_tx", "set_adc_resistor", "set_battery_profile",
     "set_channel_samplerate", "set_exp_voltage", "set_main_current",
     "set_main_voltage", "set_max_current", "set_power_regulation",
     "set_range", "set_supply", "set_supply_used_capacity",
     "set_uart_baudrate", "set_property", "write_tx", "commit",
     "firmware_upgrade"}

C2_Field ==
    IF op \in C2_ValueGetters THEN "value" ELSE C2_FieldGetters[op]

\* C2: after a success response (type not "error") a getter whose documented
\* field is present in the response's data has returned exactly that field's
\* value (data.value for the value getters, data.range for get_range,
\* data.enabled for get_src_cur_limit_enabled and get_supply_soc_tracking,
\* data.supplies for get_supplies, data.supply_id for get_supply,
\* data.connected for is_connected), and a pure command has returned None
\* whatever data holds.
C2_SuccessReturnsField ==
    (calls > 0 /\ response.type # "error") =>
        /\ (op \in C2_ValueGetters \cup DOMAIN C2_FieldGetters
              /\ C2_Field \in DOMAIN response.data)
             => outcome = Return(response.data[C2_Field])
        /\ op \in C2_PureCommands => outcome = Return(PyNone)

\* C2 witness: get_range was answered with data holding value 7 and range
\* "low" among other fields, and returned "low".
C2_Witness ==
    /\ op = "get_range"
    /\ response = [type |-> "response", data |-> DataA]
    /\ outcome = Return(PyStr("low"))

C3_ToggleOps ==
    {"toggle_5v", "toggle_battery_profiling", "toggle_channel", "toggle_exp_port",
     "toggle_uart", "toggle_4wire", "toggle_gpo", "toggle_main",
     "toggle_src_cur_limit", "toggle_supply_soc_tracking", "toggle_tx"}

\* the boolean a toggle operation put in the request: key "value" for
\* toggle_gpo and toggle_tx, key "enable" for the others
C3_Sent ==
    IF op \in {"toggle_gpo", "toggle_tx"}
    THEN request.data.value
    ELSE request.data.enable

\* C3: every toggle operation has sent a request whose boolean (key "enable",
\* or "value" for toggle_gpo and toggle_tx) is true exactly when the argument
\* is Toggle.ON and false exactly when it is Toggle.OFF.
C3_ToggleOnIsTrue ==
    op \in C3_ToggleOps =>
        /\ calls = 1
        /\ C3_Sent.cls = "bool"
        /\ C3_Sent.v = TRUE <=> args.toggle = Member("Toggle", "ON")
        /\ C3_Sent.v = FALSE <=> args.toggle = Member("Toggle", "OFF")

\* C3 witness: toggle_gpo(2, Toggle.OFF) sent value false.
C3_Witness ==
    /\ op = "toggle_gpo"
    /\ args = [pin |-> PyInt(2), toggle |-> Member("Toggle", "OFF")]
    /\ request.data.value = PyBool(FALSE)
    /\ "enable" \notin DOMAIN request.data

\* the documented short code of each Channel member
C4_Code ==
    [MAIN_CURRENT |-> "mc", MAIN_VOLTAGE |-> "mv", MAIN_ENERGY |-> "me",
     ADC_CURRENT |-> "ac", ADC_VOLTAGE |-> "av", ADC_ENERGY |-> "ae",
     SENSE_MINUS_VOLTAGE |-> "sn", SENSE_PLUS_VOLTAGE |-> "sp", VBUS |-> "vb",
     TEMPERATURE |-> "tp", UART_LOGS |-> "rx", GPI_1 |-> "i1", GPI_2 |-> "i2"]

C4_ChannelOps ==
    {"toggle_channel", "enable_channel", "disable_channel",
     "get_channel_samplerate", "get_value"}

\* C4: the Channel members are the thirteen documented ones, each with its
\* documented short code, the codes are pairwise distinct, and every
\* operation that takes a Channel (toggle_channel, enable_channel,
\* disable_channel, get_channel_samplerate, get_value) has sent the short
\* code string of its argument, not the member, as data.channel.
C4_ChannelCodes ==
    /\ DOMAIN Channel = DOMAIN C4_Code
    /\ \A n \in DOMAIN Channel : Value(Member("Channel", n)) = PyStr(C4_Code[n])
    /\ \A m, n \in DOMAIN Channel : m # n => Channel[m] # Channel[n]
    /\ op \in C4_ChannelOps =>
          /\ calls = 1
          /\ args.channel \in Channels
          /\ request.data.channel = PyStr(C4_Code[args.channel.name])

\* C4 witness: get_value(Channel.GPI_2) sent channel "i2".
C4_Witness ==
    /\ op = "get_value"
    /\ args.channel = Member("Channel", "GPI_2")
    /\ request.cmd = "arc_get_value"
    /\ request.data.channel = PyStr("i2")

\* the remote command of each public method, without its "arc_" prefix
C5_Command ==
    [calibrate |-> "calibrate", toggle_5v |-> "enable_5v",
     toggle_battery_profiling |-> "enable_battery_profiling",
     toggle_channel |-> "enable_channel",
     toggle_exp_port |-> "enable_exp_port", toggle_uart |-> "enable_uart",
     get_4wire |-> "get_4wire", get_adc_resistor |-> "get_adc_resistor",
     get_channel_samplerate |-> "get_channel_samplerate",
     get_exp_voltage |-> "get_exp_voltage", get_gpi |-> "get_gpi",
     get_main |-> "get_main", get_main_voltage |-> "get_main_voltage",
     get_max_current |-> "get_max_current", get_range |-> "get_range",
     get_rx |-> "get_rx",
     get_src_cur_limit_enabled |-> "get_src_cur_limit_enabled",
     get_supplies |-> "get_supplies", get_supply |-> "get_supply",
     get_supply_parallel |-> "get_supply_parallel",
     get_supply_series |-> "get_supply_series",
     get_supply_soc_tracking |-> "get_supply_soc_tracking",
     get_supply_used_capacity |-> "get_supply_used_capacity",
     get_uart_baudrate |-> "get_uart_baudrate", get_value |-> "get_value",
     get_version |-> "get_version", is_connected |-> "is_connected",
     toggle_4wire |-> "set_4wire", set_adc_resistor |-> "set_adc_resistor",
     set_battery_profile |-> "set_battery_profile",
     set_channel_samplerate |-> "set_channel_samplerate",
     set_exp_voltage |-> "set_exp_voltage", toggle_gpo |-> "set_gpo",
     toggle_main |-> "set_main", set_main_current |-> "set_main_current",
     set_main_voltage |-> "set_main_voltage",
     set_max_current |-> "set_max_current",
     set_power_regulation |-> "set_power_regulation",
     set_range |-> "set_range",
     toggle_src_cur_limit |-> "set_src_cur_limit_enabled",
     set_supply |-> "set_supply",
     toggle_supply_soc_tracking |-> "set_supply_soc_tracking",
     set_supply_used_capacity |-> "set_supply_used_capacity",
     toggle_tx |-> "set_tx", set_uart_baudrate |-> "set_uart_baudrate",
     wait_for_battery_data |-> "wait_for_battery_data",
     write_tx |-> "write_tx", get_property |-> "get_property",
     set_property |-> "set_property", commit |-> "commit",
     firmware_upgrade |-> "firmware_upgrade", enable_5v |-> "enable_5v",
     disable_5v |-> "enable_5v",
     enable_battery_profiling |-> "enable_battery_profiling",
     disable_battery_profiling |-> "enable_battery_profiling",
     enable_channel |-> "enable_channel",
     disable_channel |-> "enable_channel",
     enable_exp_port |-> "enable_exp_port",
     disable_exp_port |-> "enable_exp_port", enable_uart |-> "enable_uart",
     disable_uart |-> "enable_uart", enable_4wire |-> "set_4wire",
     disable_4wire |-> "set_4wire", enable_gpo |-> "set_gpo",
     disable_gpo |-> "set_gpo", enable_main |-> "set_main",
     disable_main |-> "set_main",
     enable_toggle_src_cur_limit |-> "set_src_cur_limit_enabled",
     disable_toggle_src_cur_limit |-> "set_src_cur_limit_enabled",
     enable_supply_soc_tracking |-> "set_supply_soc_tracking",
     disable_supply_soc_tracking |-> "set_supply_soc_tracking",
     enable_tx |-> "set_tx", disable_tx |-> "set_tx"]

\* C5: every request an operation has handed to the connection is an envelope
\* of exactly type, cmd and data, with type "request", the cmd fixed for the
\* operation and prefixed "arc_", and data.device_id equal to the device_id
\* the handle was constructed with, whatever operations came before.
C5_RequestEnvelope ==
    calls > 0 =>
        /\ DOMAIN request = {"type", "cmd", "data"}
        /\ request.type = "request"
        /\ request.cmd = "arc_" \o C5_Command[op]
        /\ "device_id" \in DOMAIN request.data
        /\ request.data.device_id = init_args.device_dict.device_id

\* C5 witness: set_supply on the handle constructed with device_id "arc-2"
\* sent an arc_set_supply request for "arc-2".
C5_Witness ==
    /\ op = "set_supply"
    /\ init_args.device_dict.device_id = PyStr("arc-2")
    /\ request.type = "request"
    /\ request.cmd = "arc_set_supply"
    /\ request.data.device_id = PyStr("arc-2")

\* C6 (as claimed): an operation ends in a failure if and only if the
\* response type is "error", the failure is the device error, and with any
\* other response, one whose data lacks the field the operation reads
\* included, the operation returns normally.
C6_OnlyDeviceError ==
    op # "__init__" =>
        /\ outcome.kind = "raise" <=> (calls > 0 /\ response.type = "error")
        /\ outcome.kind = "raise" => outcome.exc.cls = "Otii_Exception"

\* C7 (as claimed): every invocation of a public operation calls
\* send_and_receive exactly once, whether the response is a success or an
\* error, the enable_* and disable_* wrappers too.
C7_ExactlyOneCall ==
    op # "__init__" => calls = 1

C8_Ops ==
    {"set_adc_resistor", "set_exp_voltage", "set_max_current", "get_gpi",
     "toggle_gpo"}

\* the argument with a documented range, and what the request carries for it
C8_Arg == IF op \in {"get_gpi", "toggle_gpo"} THEN args.pin ELSE args.value
C8_SentArg ==
    IF op \in {"get_gpi", "toggle_gpo"} THEN request.data.pin ELSE request.data.value

C9_Timeouts ==
    calls > 0 =>
        /\ op = "calibrate" => timeout = PyInt(10)
        /\ op = "firmware_upgrade" => timeout = PyInt(15)
        /\ (op = "wait_for_battery_data" /\ args.timeout.v >= 0) =>
              /\ timeout.cls = "float"
              /\ timeout.milli - args.timeout.v = 60 * 1000
        /\ op \notin {"calibrate", "firmware_upgrade", "wait_for_battery_data"}
              => timeout = Omitted

\* C9 witness: wait_for_battery_data(1500) passed 61.5 seconds.
C9_Witness ==
    /\ op = "wait_for_battery_data"
    /\ args.timeout = PyInt(1500)
    /\ request.data.timeout = PyInt(1500)
    /\ timeout = PyFloat(61500)

\* C10 (as claimed): set_channel_samplerate called with a Channel member and
\* an int sample rate sends one request with cmd
\* "arc_set_channel_samplerate" whose data.channel is the channel's short
\* code string, as get_channel_samplerate sends it, and whose data.value is
\* that int.
C10_SetChannelSamplerate ==
    (op = "set_channel_samplerate" /\ args.channel \in Channels
                                   /\ args.value.cls = "int") =>
        /\ calls = 1
        /\ request.cmd = "arc_set_channel_samplerate"
        /\ request.data.channel = Value(args.channel)
        /\ request.data.value = args.value

\* C11 (as claimed): on a non-error response wait_for_battery_data returns
\* the battery data the response carries as data.value, and returns None,
\* without failing, when the response carries no battery data value: value
\* is None or data has no "value" at all.
C11_BatteryDataOrNone ==
    (op = "wait_for_battery_data" /\ calls > 0 /\ response.type # "error") =>
        IF "value" \in DOMAIN response.data
        THEN outcome = Return(response.data.value)
        ELSE outcome = Return(PyNone)

\* C12 (as claimed): on a success response get_version returns a dictionary
\* holding exactly the keys hw_version and fw_version, with the values the
\* response's data has for them, whatever else data holds.
C12_VersionKeysOnly ==
    (op = "get_version" /\ calls > 0 /\ response.type # "error") =>
        /\ outcome.kind = "return"
        /\ DOMAIN outcome.value = {"hw_version", "fw_version"}
        /\ \A k \in {"hw_version", "fw_version"} :
              k \in DOMAIN response.data /\ outcome.value[k] = response.data[k]

\* C12 (amended): on a success response get_version returns the response's
\* data mapping itself: it holds hw_version and fw_version exactly when data
\* does, and every other key of data as well.
C12_VersionReturnsData ==
    (op = "get_version" /\ calls > 0 /\ response.type # "error") =>
        /\ outcome = Return(response.data)
        /\ DOMAIN outcome.value = DOMAIN response.data

\* C12 witness: get_version was answered with data holding hw_version,
\* fw_version and other keys, and returned all of them.
C12_Witness ==
    /\ op = "get_version"
    /\ response = [type |-> "response", data |-> DataA]
    /\ outcome.kind = "return"
    /\ outcome.value.hw_version = PyStr("1.0.0")
    /\ outcome.value.fw_version = PyStr("1.2.3")
    /\ "extra" \in DOMAIN outcome.value

\* each convenience method with the toggle method and Toggle member it stands for
C14_Wrapper ==
    [enable_5v |-> [toggle |-> "toggle_5v", member |-> "ON"],
     disable_5v |-> [toggle |-> "toggle_5v", member |-> "OFF"],
     enable_battery_profiling |-> [toggle |-> "toggle_battery_profiling", member |-> "ON"],
     disable_battery_profiling |-> [toggle |-> "toggle_battery_profiling", member |-> "OFF"],
     enable_channel |-> [toggle |-> "toggle_channel", member |-> "ON"],
     disable_channel |-> [toggle |-> "toggle_channel", member |-> "OFF"],
     enable_exp_port |-> [toggle |-> "toggle_exp_port", member |-> "ON"],
     disable_exp_port |-> [toggle |-> "toggle_exp_port", member |-> "OFF"],
     enable_uart |-> [toggle |-> "toggle_uart", member |-> "ON"],
     disable_uart |-> [toggle |-> "toggle_uart", member |-> "OFF"],
     enable_4wire |-> [toggle |-> "toggle_4wire", member |-> "ON"],
     disable_4wire |-> [toggle |-> "toggle_4wire", member |-> "OFF"],
     enable_gpo |-> [toggle |-> "toggle_gpo", member |-> "ON"],
     disable_gpo |-> [toggle |-> "toggle_gpo", member |-> "OFF"],
     enable_main |-> [toggle |-> "toggle_main", member |-> "ON"],
     disable_main |-> [toggle |-> "toggle_main", member |-> "OFF"],
     enable_toggle_src_cur_limit |-> [toggle |-> "toggle_src_cur_limit", member |-> "ON"],
     disable_toggle_src_cur_limit |-> [toggle |-> "toggle_src_cur_limit", member |-> "OFF"],
     enable_supply_soc_tracking |-> [toggle |-> "toggle_supply_soc_tracking", member |-> "ON"],
     disable_supply_soc_tracking |-> [toggle |-> "toggle_supply_soc_tracking", member |-> "OFF"],
     enable_tx |-> [toggle |-> "toggle_tx", member |-> "ON"],
     disable_tx |-> [toggle |-> "toggle_tx", member |-> "OFF"]]

\* the wrapper invoked in the next state is given the channel or pin that the
\* toggle method of this state was given
C14_SameExtraArgs ==
    /\ op = "toggle_channel" => args'.channel = args.channel
    /\ op = "toggle_gpo" => args'.pin = args.pin

\* a step from an invocation of toggle_X(Toggle.ON) or toggle_X(Toggle.OFF)
\* to an invocation of enable_X or disable_X with the same other arguments
\* and the same response: request, timeout, number of calls and outcome are
\* those of the toggle invocation
C14_Step ==
    /\ (/\ op' \in DOMAIN C14_Wrapper
        /\ op = C14_Wrapper[op'].toggle
        /\ args.toggle = Member("Toggle", C14_Wrapper[op'].member)
        /\ C14_SameExtraArgs
        /\ response' = response)
          => /\ request' = request
             /\ timeout' = timeout
             /\ calls' = calls
             /\ outcome' = outcome
    /\ op' = "disable_channel" => request'.data.enable = PyBool(FALSE)

C15_Fields ==
    IF op = "get_version" THEN {"hw_version", "fw_version"} ELSE {C2_Field}

C15_OtherGetters ==
    C2_ValueGetters \cup DOMAIN C2_FieldGetters \cup {"get_version"}

\* what the claim says of get_property itself
C15_GetProperty ==
    (op = "get_property" /\ calls > 0) =>
        outcome = IF response.type = "error"
                    THEN Raise(Otii_Exception(response))
                    ELSE IF "value" \in DOMAIN response.data
                           THEN Return(response.data.value)
                           ELSE Return(PyNone)

\* C15 (as claimed): get_property returns data.value on a non-error response
\* that has the key and None on one that has not, raises the device error on
\* an error response, and is the only getter that tolerates a missing field:
\* every other getter fails on a success response that lacks a field it is
\* documented to return.
C15_OnlyTolerantGetter ==
    /\ C15_GetProperty
    /\ (/\ op \in C15_OtherGetters
        /\ calls > 0
        /\ response.type # "error"
        /\ ~(C15_Fields \subseteq DOMAIN response.data))
          => outcome.kind = "raise"

\* C15 (amended): the same of get_property; the getters that fail on a
\* missing field, with KeyError, are those that index a field of data, which
\* is every getter but get_property and get_version (get_version returns
\* data whole and so tolerates missing fields too).
C15_TolerantGetters ==
    /\ C15_GetProperty
    /\ (/\ op \in C15_OtherGetters \ {"get_version"}
        /\ calls > 0
        /\ response.type # "error"
        /\ C2_Field \notin DOMAIN response.data)
          => outcome = Raise(KeyError(C2_Field))
    /\ (op = "get_version" /\ calls > 0 /\ response.type # "error")
          => outcome.kind = "return"

\* C15 witness: get_property was answered with success data that has no
\* "value" key and returned None.
C15_Witness ==
    /\ op = "get_property"
    /\ response = [type |-> "response", data |-> DataNoField]
    /\ outcome = Return(PyNone)

\* what an invocation can end in when its outcome is taken from a success
\* response r alone: None, r's data, an item of r's data, or the KeyError of
\* a key r's data lacks
C16_FromResponse(r) ==
    {Return(PyNone), Return(r.data)}
        \cup {Return(r.data[k]) : k \in DOMAIN r.data}
        \cup {Raise(KeyError(k)) :
                k \in {"value", "range", "enabled", "supplies", "supply_id",
                       "connected"} \ DOMAIN r.data}

\* the invocation that follows one that raised the device error: its request
\* is the one the operation always sends, it raises the device error exactly
\* when its own response is an error, carrying that response, and otherwise
\* ends in something taken from its own response; it sends nothing only where
\* its own argument makes it raise before sending (set_channel_samplerate
\* given a rate without a value attribute), failure before it or not
C16_AfterFailure ==
    prev_failed =>
        /\ calls > 0 =>
              /\ request.type = "request"
              /\ request.cmd = "arc_" \o C5_Command[op]
              /\ request.data.device_id = init_args.device_dict.device_id
        /\ DeviceError(outcome) <=> (calls > 0 /\ response.type = "error")
        /\ DeviceError(outcome) => outcome.exc.arg = response
        /\ (calls > 0 /\ response.type # "error")
              => outcome \in C16_FromResponse(response)
        /\ calls = 0 <=> (op = "set_channel_samplerate" /\ ~HasValue(args.value))

\* an operation invoked again with the same arguments right after it raised
\* the device error sends the same request with the same timeout, and ends
\* as before if the response is the same
C16_Again ==
    (DeviceError(outcome) /\ op' = op /\ args' = args) =>
        /\ calls' = calls
        /\ request' = request
        /\ timeout' = timeout
        /\ response' = response => outcome' = outcome

\* C16: a failed operation leaves nothing behind: after an operation has
\* raised the device error, the next operation on the handle sends its
\* request unchanged and its outcome depends only on its own response,
\* whatever mix of failing and succeeding operations came before.
C16_NoStickyError ==
    [](C16_AfterFailure) /\ [][C16_Again]_vars

\* C16 witness: right after an invocation that raised the device error,
\* set_property was sent as usual and returned normally on its own success
\* response.
C16_Witness ==
    /\ prev_failed
    /\ op = "set_property"
    /\ request.cmd = "arc_set_property"
    /\ response.type = "response"
    /\ outcome = Return(PyNone)

\* C17: no operation other than the constructor writes the handle's fields:
\* after any sequence of operations, ending in success or in error, the
\* handle's type, id, name and connection are the values __init__ took from
\* device_dict["type"], device_dict["device_id"], device_dict["name"] and
\* the connection argument.
C17_FieldsAsConstructed ==
    /\ self.type = init_args.device_dict.type
    /\ self.id = init_args.device_dict.device_id
    /\ self.name = init_args.device_dict.name
    /\ self.connection = init_args.connection
    /\ DOMAIN self = {"type", "id", "name", "connection"}

\* C17 witness: set_property("name", ...) returned normally right after an
\* invocation that raised the device error, and the handle's name is still
\* the constructor's.
C17_Witness ==
    /\ prev_failed
    /\ op = "set_property"
    /\ args.name # self.name
    /\ response.type = "response"
    /\ outcome = Return(PyNone)
    /\ self.name = init_args.device_dict.name

====
